---- MODULE Spec2Model ----
(***************************************************************************)
(* prosemirror-autopairs: the character taxonomy, the adjacency policy and *)
(* the key handlers (auto-close, skip-over, wrap, paired-delete).          *)
(*                                                                         *)
(* The repository holds two implementations of the plugin:                 *)
(*   - src/lib (chars.ts, utils.ts, autopairs.ts):                         *)
(*       createAutopairCommandForChar, createBackspaceInputCommand         *)
(*   - packages/prosemirror-autopairs/src/lib (pairs.ts, utils.ts,         *)
(*     autopairs.ts):                                                      *)
(*       createAutopairInputHandler, createBackspaceInputHandler           *)
(* Both are modelled, each with the classification predicates it imports.  *)
(*                                                                         *)
(* The editor document is one textblock: doc > paragraph > inline.  Its    *)
(* inline content is a sequence of items: a one-character string is one    *)
(* character of a text node, IMG is an inline leaf node that is not text.  *)
(* Every item has node size 1, so a position is an offset 0..Len(doc) into *)
(* the paragraph (ProseMirror's absolute position is that offset + 1).     *)
(***************************************************************************)
EXTENDS Integers, Sequences, FiniteSets, TLC

VARIABLES
    doc,        \* inline content of the paragraph
    from,       \* selection.from
    to,         \* selection.to  (selection.empty iff from = to)
    call,       \* the last command invocation: handler, char, dispatch?, state before
    handled,    \* what that invocation returned
    dispatched, \* how many transactions that invocation dispatched
    thrown,     \* the error that invocation threw, NoError when it returned
    probe       \* a direct call of an exported function, with its outcome

vars == <<doc, from, to, call, handled, dispatched, thrown, probe>>

\* Longest paragraph a character command is invoked on.
MaxLen == 3

-----------------------------------------------------------------------------
(* Values *)

\* An inline leaf node that is not a text node (image, hard break).
IMG == "img"

\* JavaScript's undefined, as a value returned by a lookup that misses.
undefined == "undefined"

null == [isNull |-> TRUE]

\* A number, and a member inherited from Object.prototype (a function).
aNumber == "<number 42>"

inheritedMember == "<member of Object.prototype>"

\* Values of type unknown that are not strings.
NonStrings == {undefined, aNumber, inheritedMember}

\* Property names every object literal inherits from Object.prototype.
ObjectPrototypeKeys == {"constructor", "toString", "__proto__"}

isString(value) == value \notin NonStrings

\* String(value) as a sequence of UTF-16 code units, for `a + b` on strings.
ToChars(value) ==
    IF value = undefined
    THEN <<"u", "n", "d", "e", "f", "i", "n", "e", "d">>
    ELSE IF value = "()" THEN <<"(", ")">>
    ELSE <<value>>

\* /\w/ over the characters the model uses.
WordChars == {"a", "u", "n", "d", "e", "f", "i"}

-----------------------------------------------------------------------------
(* pairs.ts / chars.ts: enums and tables *)

Quote == [Double |-> "\"", Single |-> "'"]

OpeningBracket == [Round |-> "(", Square |-> "[", Curly |-> "{", Angle |-> "<"]

ClosingBracket == [Round |-> ")", Square |-> "]", Curly |-> "}", Angle |-> ">"]

BACKSPACE == "Backspace"

\* Record<OpeningChar, ClosingChar>, in key order.
AUTOPAIR_CHAR_MAP ==
    << <<OpeningBracket.Angle, ClosingBracket.Angle>>,
       <<OpeningBracket.Curly, ClosingBracket.Curly>>,
       <<OpeningBracket.Round, ClosingBracket.Round>>,
       <<OpeningBracket.Square, ClosingBracket.Square>>,
       <<Quote.Double, Quote.Double>>,
       <<Quote.Single, Quote.Single>> >>

OPEN_CLOSE_MAPPING == AUTOPAIR_CHAR_MAP

Keys(m) == [i \in 1..Len(m) |-> m[i][1]]

Values(m) == [i \in 1..Len(m) |-> m[i][2]]

Includes(list, v) == \E i \in 1..Len(list) : list[i] = v

\* Object.prototype.hasOwnProperty: key is one of the table's own keys.
HasOwn(m, key) == \E i \in 1..Len(m) : m[i][1] = key

\* `key in obj`: own keys and the keys inherited from Object.prototype.
HasProperty(m, key) == HasOwn(m, key) \/ key \in ObjectPrototypeKeys

\* obj[key] on an object literal: the own value, else the inherited member,
\* else undefined.
Lookup(m, key) ==
    IF HasOwn(m, key)
    THEN m[CHOOSE i \in 1..Len(m) : m[i][1] = key][2]
    ELSE IF key \in ObjectPrototypeKeys THEN inheritedMember
    ELSE undefined

\* chars.ts (src/lib)
ALL_AUTOPAIR_CHARS == Keys(AUTOPAIR_CHAR_MAP) \o Values(AUTOPAIR_CHAR_MAP)

\* pairs.ts (packages)
ALL_OPENING_CHARS == Keys(OPEN_CLOSE_MAPPING)

ALL_CLOSING_CHARS == Values(OPEN_CLOSE_MAPPING)

isQuoteChar(char) == char = Quote.Double \/ char = Quote.Single

isQuote(char) == char = Quote.Double \/ char = Quote.Single

\* chars.ts: all three predicates test membership in ALL_AUTOPAIR_CHARS.
isOpeningChar(char) == isString(char) /\ Includes(ALL_AUTOPAIR_CHARS, char)

isClosingChar(char) == isString(char) /\ Includes(ALL_AUTOPAIR_CHARS, char)

isAutopairChar(char) == isString(char) /\ Includes(ALL_AUTOPAIR_CHARS, char)

findClosingMatch(char) == Lookup(AUTOPAIR_CHAR_MAP, char)

\* Mutant: any opening character followed by any closing character matches.
isMatchingPair_anyOpenClose(charBefore, charAfter) ==
    /\ Includes(Keys(AUTOPAIR_CHAR_MAP), charBefore)
    /\ Includes(Values(AUTOPAIR_CHAR_MAP), charAfter)

isMatchingPair(charBefore, charAfter) ==
    LET openingMatch == isOpeningChar(charBefore)
        charAfterMatches == isClosingChar(charAfter)
        isPair == openingMatch /\ charAfterMatches
    IN  isPair /\ findClosingMatch(charBefore) = charAfter

\* Mutant: the opening test taken over all pair characters.
isOpeningCharacter_anyPairChar(char) ==
    isString(char) /\ Includes(ALL_OPENING_CHARS \o ALL_CLOSING_CHARS, char)

\* pairs.ts
isOpeningCharacter(char) == isString(char) /\ Includes(ALL_OPENING_CHARS, char)

isClosingCharacter(char) == isString(char) /\ Includes(ALL_CLOSING_CHARS, char)

isMatchingCharacter(char) ==
    isString(char) /\ Includes(ALL_OPENING_CHARS \o ALL_CLOSING_CHARS, char)

getClosingCharacter(char) == Lookup(OPEN_CLOSE_MAPPING, char)

\* Mutant: the two quote characters close each other.
isMatchingPairPkg_anyQuotes(charBefore, charAfter) ==
    LET openingMatch == isOpeningCharacter(charBefore)
        charAfterMatches == isClosingCharacter(charAfter)
        isPair == openingMatch /\ charAfterMatches
    IN  isPair /\ (getClosingCharacter(charBefore) = charAfter
                    \/ (isQuote(charBefore) /\ isQuote(charAfter)))

isMatchingPairPkg(charBefore, charAfter) ==
    LET openingMatch == isOpeningCharacter(charBefore)
        charAfterMatches == isClosingCharacter(charAfter)
        isPair == openingMatch /\ charAfterMatches
    IN  isPair /\ getClosingCharacter(charBefore) = charAfter

-----------------------------------------------------------------------------
(* The host: EditorState, ResolvedPos, Transaction *)

EditorState(d, f, t) == [doc |-> d, from |-> f, to |-> t]

selectionEmpty(state) == state.from = state.to

\* The text node that ends at offset pos: the maximal run of characters.
TextRunBefore(d, pos) ==
    LET start == CHOOSE s \in 0..(pos - 1) :
                    /\ \A i \in (s + 1)..pos : d[i] # IMG
                    /\ (s = 0 \/ d[s] = IMG)
    IN  SubSeq(d, start + 1, pos)

TextRunAfter(d, pos) ==
    LET end == CHOOSE e \in (pos + 1)..Len(d) :
                    /\ \A i \in (pos + 1)..e : d[i] # IMG
                    /\ (e = Len(d) \/ d[e + 1] = IMG)
    IN  SubSeq(d, pos + 1, end)

\* $pos.nodeBefore / $pos.nodeAfter inside the paragraph.
nodeBefore(d, pos) ==
    IF pos = 0 THEN null
    ELSE IF d[pos] = IMG THEN [isText |-> FALSE]
    ELSE [isText |-> TRUE, text |-> TextRunBefore(d, pos)]

nodeAfter(d, pos) ==
    IF pos = Len(d) THEN null
    ELSE IF d[pos + 1] = IMG THEN [isText |-> FALSE]
    ELSE [isText |-> TRUE, text |-> TextRunAfter(d, pos)]

\* doc.textBetween(from, to): leaf nodes that are not text contribute nothing.
isTextItem(x) == x # IMG

textBetween(d, f, t) == SelectSeq(SubSeq(d, f + 1, t), isTextItem)

\* tr.replaceWith(from, to, schema.text(text)) on the document.
replaceWith(d, f, t, text) == SubSeq(d, 1, f) \o text \o SubSeq(d, t + 1, Len(d))

\* tr.insertText(text, from)
insertText(d, text, f) == replaceWith(d, f, f, text)

\* tr.delete(from, to); the selection is mapped through the step.
deleteRange(d, f, t) == replaceWith(d, f, t, <<>>)

mapPos(pos, f, t) == IF pos <= f THEN pos ELSE IF pos >= t THEN pos - (t - f) ELSE f

\* A transaction: the document and the (cursor) selection it leaves.
Transaction(d, f, t) == [doc |-> d, from |-> f, to |-> t]

-----------------------------------------------------------------------------
(* utils.ts (the same code in src/lib and in packages) *)

isTextNode(node) == node # null /\ node.isText = TRUE

\* /\w/.test(s) on a string given as its sequence of characters.
wordCharRegexTest(s) == \E i \in 1..Len(s) : s[i] \in WordChars

\* Mutant: only the character before the cursor is tested.
isAdjacentToWordChar_beforeOnly(charBefore, charAfter) ==
    wordCharRegexTest(charBefore)

isAdjacentToWordChar(charBefore, charAfter) ==
    wordCharRegexTest(charBefore) \/ wordCharRegexTest(charAfter)

startsWith(text, prefix) ==
    Len(prefix) <= Len(text) /\ SubSeq(text, 1, Len(prefix)) = prefix

\* Mutant: any text after the cursor is skipped, whatever it starts with.
shouldSkipClosing_anyText(state, char) ==
    IF ~selectionEmpty(state) THEN FALSE
    ELSE isTextNode(nodeAfter(state.doc, state.from))

\* Mutant: quotes are never skipped over.
shouldSkipClosing_notQuotes(state, char) ==
    /\ ~isQuoteChar(char)
    /\ selectionEmpty(state)
    /\ isTextNode(nodeAfter(state.doc, state.from))
    /\ startsWith(nodeAfter(state.doc, state.from).text, ToChars(char))

\* Mutant: a typed closing character is always skipped over.
shouldSkipClosing_always(state, char) == TRUE

shouldSkipClosing(state, char) ==
    IF ~selectionEmpty(state) THEN FALSE
    ELSE LET after == nodeAfter(state.doc, state.from)
         IN  isTextNode(after) /\ startsWith(after.text, ToChars(char))

\* Mutant: an absent neighbour counts as a word character.
shouldAutoClose_absentIsWord(state, openChar) ==
    IF ~selectionEmpty(state) THEN TRUE
    ELSE IF isQuoteChar(openChar)
    THEN LET before == nodeBefore(state.doc, state.from)
             after == nodeAfter(state.doc, state.from)
             charBefore == IF isTextNode(before) /\ before.text # <<>>
                           THEN <<before.text[Len(before.text)]>>
                           ELSE <<"a">>
             charAfter == IF isTextNode(after) /\ after.text # <<>>
                          THEN <<after.text[1]>>
                          ELSE <<"a">>
         IN  ~isAdjacentToWordChar(charBefore, charAfter)
    ELSE TRUE

shouldAutoClose(state, openChar) ==
    IF ~selectionEmpty(state) THEN TRUE
    ELSE IF isQuoteChar(openChar)
    THEN LET before == nodeBefore(state.doc, state.from)
             after == nodeAfter(state.doc, state.from)
             charBefore == IF isTextNode(before) /\ before.text # <<>>
                           THEN <<before.text[Len(before.text)]>>
                           ELSE <<>>
             charAfter == IF isTextNode(after) /\ after.text # <<>>
                          THEN <<after.text[1]>>
                          ELSE <<>>
         IN  ~isAdjacentToWordChar(charBefore, charAfter)
    ELSE TRUE

-----------------------------------------------------------------------------
(* autopairs.ts: the commands.  A command returns whether it handled the   *)
(* key and the transactions it passed to dispatch.                         *)

NoError == "none"

Unhandled == [handled |-> FALSE, trs |-> <<>>, thrown |-> NoError]

\* doc.resolve(pos) throws a RangeError for a position outside the document.
resolves(d, pos) == pos \in 0..Len(d)

\* Mutant: `return true` has moved inside `if (dispatch) { ... }`.
Handled_onlyWithDispatch(dispatch, tr) ==
    IF ~dispatch THEN [handled |-> FALSE, trs |-> <<>>, thrown |-> NoError]
    ELSE IF resolves(tr.doc, tr.from) /\ resolves(tr.doc, tr.to)
    THEN [handled |-> TRUE, trs |-> <<tr>>, thrown |-> NoError]
    ELSE [handled |-> FALSE, trs |-> <<>>, thrown |-> "RangeError"]

\* `if (dispatch) { ...; dispatch(tr) }  return true`: the transaction is
\* built only when there is a dispatch function, and building it throws when
\* the cursor position does not resolve in the transaction's document.
Handled(dispatch, tr) ==
    IF ~dispatch THEN [handled |-> TRUE, trs |-> <<>>, thrown |-> NoError]
    ELSE IF resolves(tr.doc, tr.from) /\ resolves(tr.doc, tr.to)
    THEN [handled |-> TRUE, trs |-> <<tr>>, thrown |-> NoError]
    ELSE [handled |-> FALSE, trs |-> <<>>, thrown |-> "RangeError"]

\* Wrap: replaceWith(from, to, text(wrappedText)), cursor at from + wrappedText.length
wrapTransaction(state, wrappedText) ==
    Transaction(replaceWith(state.doc, state.from, state.to, wrappedText),
                state.from + Len(wrappedText), state.from + Len(wrappedText))

\* Skip-over: setSelection(Selection.near(resolve(from + 1)))
skipTransaction(state) ==
    Transaction(state.doc, state.from + 1, state.from + 1)

\* Auto-close: insertText(insertText, from), cursor at from + 1
insertTransaction(state, text) ==
    Transaction(insertText(state.doc, text, state.from),
                state.from + 1, state.from + 1)

\* Mutant: the cursor is not mapped through the deletion.
deleteTransaction_cursorStays(state) ==
    Transaction(deleteRange(state.doc, state.from - 1, state.from + 1),
                state.from, state.to)

\* Mutant: only the character before the cursor is deleted.
deleteTransaction_oneChar(state) ==
    Transaction(deleteRange(state.doc, state.from - 1, state.from),
                state.from - 1, state.from - 1)

\* Paired-delete: delete($cursor.pos - 1, $cursor.pos + 1)
deleteTransaction(state) ==
    Transaction(deleteRange(state.doc, state.from - 1, state.from + 1),
                mapPos(state.from, state.from - 1, state.from + 1),
                mapPos(state.to, state.from - 1, state.from + 1))

\* src/lib/autopairs.ts
createAutopairCommandForChar(char, state, dispatch) ==
    IF ~isAutopairChar(char) THEN Unhandled
    ELSE IF ~selectionEmpty(state)
    THEN IF ~isOpeningChar(char) THEN Unhandled
         ELSE LET closingChar == findClosingMatch(char)
              IN  IF closingChar = undefined THEN Unhandled
                  ELSE LET selectedText == textBetween(state.doc, state.from, state.to)
                           wrappedText == ToChars(char) \o selectedText \o ToChars(closingChar)
                       IN  Handled(dispatch, wrapTransaction(state, wrappedText))
    ELSE IF isClosingChar(char) /\ shouldSkipClosing(state, char)
    THEN Handled(dispatch, skipTransaction(state))
    ELSE IF isOpeningChar(char) /\ shouldAutoClose(state, char)
    THEN LET closingChar == findClosingMatch(char)
             text == ToChars(char) \o ToChars(closingChar)
         IN  Handled(dispatch, insertTransaction(state, text))
    ELSE Unhandled

createBackspaceInputCommand(state, dispatch) ==
    IF ~selectionEmpty(state) THEN Unhandled
    ELSE LET beforeNode == nodeBefore(state.doc, state.from)
             afterNode == nodeAfter(state.doc, state.from)
         IN  IF ~isTextNode(beforeNode) \/ ~isTextNode(afterNode) THEN Unhandled
             ELSE LET charBefore == beforeNode.text[Len(beforeNode.text)]
                      charAfter == afterNode.text[1]
                  IN  IF isMatchingPair(charBefore, charAfter)
                      THEN Handled(dispatch, deleteTransaction(state))
                      ELSE Unhandled

\* Mutant: the auto-close check is made before the skip-over check.
createAutopairInputHandler_autoCloseFirst(char, state, dispatch) ==
    IF ~isMatchingCharacter(char) THEN Unhandled
    ELSE LET isOpeningCh == isOpeningCharacter(char)
             isClosingCh == isClosingCharacter(char)
             closingChar == getClosingCharacter(char)
         IN  IF ~selectionEmpty(state)
             THEN IF ~isOpeningCh \/ ~isClosingCh THEN Unhandled
                  ELSE LET selectedText == textBetween(state.doc, state.from, state.to)
                           wrappedText == ToChars(char) \o selectedText \o ToChars(closingChar)
                       IN  Handled(dispatch, wrapTransaction(state, wrappedText))
             ELSE IF isOpeningCh /\ shouldAutoClose(state, char)
             THEN Handled(dispatch, insertTransaction(state, ToChars(char) \o ToChars(closingChar)))
             ELSE IF isClosingCh /\ shouldSkipClosing(state, char)
             THEN Handled(dispatch, skipTransaction(state))
             ELSE Unhandled

\* packages/prosemirror-autopairs/src/lib/autopairs.ts
createAutopairInputHandler(char, state, dispatch) ==
    IF ~isMatchingCharacter(char) THEN Unhandled
    ELSE LET isOpeningCh == isOpeningCharacter(char)
             isClosingCh == isClosingCharacter(char)
             closingChar == getClosingCharacter(char)
         IN  IF ~selectionEmpty(state)
             THEN IF ~isOpeningCh \/ ~isClosingCh THEN Unhandled
                  ELSE LET selectedText == textBetween(state.doc, state.from, state.to)
                           wrappedText == ToChars(char) \o selectedText \o ToChars(closingChar)
                       IN  Handled(dispatch, wrapTransaction(state, wrappedText))
             ELSE IF isClosingCh /\ shouldSkipClosing(state, char)
             THEN Handled(dispatch, skipTransaction(state))
             ELSE IF isOpeningCh /\ shouldAutoClose(state, char)
             THEN Handled(dispatch, insertTransaction(state, ToChars(char) \o ToChars(closingChar)))
             ELSE Unhandled

createBackspaceInputHandler(state, dispatch) ==
    IF ~selectionEmpty(state) THEN Unhandled
    ELSE LET beforeNode == nodeBefore(state.doc, state.from)
             afterNode == nodeAfter(state.doc, state.from)
         IN  IF ~isTextNode(beforeNode) \/ ~isTextNode(afterNode) THEN Unhandled
             ELSE LET charBefore == beforeNode.text[Len(beforeNode.text)]
                      charAfter == afterNode.text[1]
                  IN  IF isMatchingPairPkg(charBefore, charAfter)
                      THEN Handled(dispatch, deleteTransaction(state))
                      ELSE Unhandled

-----------------------------------------------------------------------------
(* The state machine: one action per command invocation on the view *)

\* Characters of the paragraphs the editor starts with.
InitAlphabet == {"(", ")", "\"", "a", IMG}

\* Values a character command is created for.
TypedChars ==
    {ALL_AUTOPAIR_CHARS[i] : i \in 1..Len(ALL_AUTOPAIR_CHARS)}
        \cup {"x", "()", undefined, aNumber}

SrcChar == "createAutopairCommandForChar"
SrcBackspace == "createBackspaceInputCommand"
PkgChar == "createAutopairInputHandler"
PkgBackspace == "createBackspaceInputHandler"

\* No command is running: the view waits for the next key event.
NoCall == [handler |-> "none"]

Idle == call = NoCall

\* No exported function is being called directly.
NoProbe == [fn |-> "none"]

Init ==
    /\ doc \in UNION {[1..n -> InitAlphabet] : n \in 0..MaxLen}
    /\ from \in 0..Len(doc)
    /\ to \in from..Len(doc)
    /\ call = NoCall
    /\ handled = FALSE
    /\ dispatched = 0
    /\ thrown = NoError
    /\ probe = NoProbe

\* command(view.state, view.dispatch): dispatch applies the transaction to the view.
Invoke(name, char, dispatch, result) ==
    /\ Idle
    /\ call' = [handler |-> name, char |-> char, dispatch |-> dispatch,
                doc |-> doc, from |-> from, to |-> to]
    /\ handled' = result.handled
    /\ dispatched' = Len(result.trs)
    /\ thrown' = result.thrown
    /\ UNCHANGED probe
    /\ IF result.trs = <<>>
       THEN UNCHANGED <<doc, from, to>>
       ELSE LET tr == result.trs[Len(result.trs)]
            IN  doc' = tr.doc /\ from' = tr.from /\ to' = tr.to

AutopairCommandForChar(char, dispatch) ==
    /\ Len(doc) <= MaxLen
    /\ Invoke(SrcChar, char, dispatch,
              createAutopairCommandForChar(char, EditorState(doc, from, to), dispatch))

BackspaceInputCommand(dispatch) ==
    Invoke(SrcBackspace, BACKSPACE, dispatch,
           createBackspaceInputCommand(EditorState(doc, from, to), dispatch))

AutopairInputHandler(char, dispatch) ==
    /\ Len(doc) <= MaxLen
    /\ Invoke(PkgChar, char, dispatch,
              createAutopairInputHandler(char, EditorState(doc, from, to), dispatch))

BackspaceInputHandler(dispatch) ==
    Invoke(PkgBackspace, BACKSPACE, dispatch,
           createBackspaceInputHandler(EditorState(doc, from, to), dispatch))

\* The key event is over (the keymap plugin has passed the command's result
\* on); key events are served one at a time.
KeyEventDone ==
    /\ ~Idle
    /\ call' = NoCall
    /\ handled' = FALSE
    /\ dispatched' = 0
    /\ thrown' = NoError
    /\ UNCHANGED <<doc, from, to, probe>>

Next ==
    \/ \E char \in TypedChars, dispatch \in BOOLEAN : AutopairCommandForChar(char, dispatch)
    \/ \E dispatch \in BOOLEAN : BackspaceInputCommand(dispatch)
    \/ \E char \in TypedChars, dispatch \in BOOLEAN : AutopairInputHandler(char, dispatch)
    \/ \E dispatch \in BOOLEAN : BackspaceInputHandler(dispatch)
    \/ KeyEventDone

Spec == Init /\ [][Next]_vars

TypeOK ==
    /\ from \in 0..Len(doc)
    /\ to \in from..Len(doc)
    /\ handled \in BOOLEAN
    /\ dispatched \in 0..1
    /\ thrown \in {NoError, "RangeError"}

-----------------------------------------------------------------------------
(* Vocabulary of the properties: the pair mapping and the character        *)
(* classes as the specification states them, and the invocation last made. *)

SpecOpeningBrackets == {"(", "[", "{", "<"}

SpecClosingBrackets == {")", "]", "}", ">"}

SpecQuotes == {"\"", "'"}

SpecOpening == SpecOpeningBrackets \cup SpecQuotes

SpecClosing == SpecClosingBrackets \cup SpecQuotes

SpecClosingFor(c) ==
    CASE c = "(" -> ")"
      [] c = "[" -> "]"
      [] c = "{" -> "}"
      [] c = "<" -> ">"
      [] c = "\"" -> "\""
      [] c = "'" -> "'"

\* The last invocation was of a character command / of a delete command,
\* and a dispatch function was passed.
CharCall == call.handler \in {SrcChar, PkgChar} /\ call.dispatch

DeleteCall == call.handler \in {SrcBackspace, PkgBackspace} /\ call.dispatch

CursorCall == call.from = call.to

\* The character of a text node just before / after offset p; "" when there
\* is none (start or end of the paragraph, or the neighbour is not text).
TextBefore(d, p) == IF p > 0 /\ d[p] # IMG THEN d[p] ELSE ""

TextAfter(d, p) == IF p < Len(d) /\ d[p + 1] # IMG THEN d[p + 1] ELSE ""

CallBefore == TextBefore(call.doc, call.from)

CallAfter == TextAfter(call.doc, call.from)

\* The view is as the invocation found it.
ViewUnchanged == doc = call.doc /\ from = call.from /\ to = call.to

NoEdit == ~handled /\ dispatched = 0 /\ ViewUnchanged

\* The auto-close edit for c: c and its closing character inserted at the
\* cursor, nothing else changed, cursor between the two.
AutoClosed(c) ==
    /\ handled
    /\ dispatched = 1
    /\ doc = SubSeq(call.doc, 1, call.from) \o <<c, SpecClosingFor(c)>>
               \o SubSeq(call.doc, call.from + 1, Len(call.doc))
    /\ from = call.from + 1
    /\ to = call.from + 1

\* The skip-over edit: the cursor one position further, the text as it was.
SkippedOver ==
    /\ handled
    /\ dispatched = 1
    /\ doc = call.doc
    /\ from = call.from + 1
    /\ to = call.from + 1

\* The wrap edit for c around the selected range.
Wrapped(c) ==
    LET selectedText == SelectSeq(SubSeq(call.doc, call.from + 1, call.to), isTextItem)
    IN  /\ handled
        /\ dispatched = 1
        /\ doc = SubSeq(call.doc, 1, call.from) \o <<c>> \o selectedText
                   \o <<SpecClosingFor(c)>> \o SubSeq(call.doc, call.to + 1, Len(call.doc))
        /\ from = call.from + Len(selectedText) + 2
        /\ to = from

\* The paired-delete edit: the two characters around the cursor removed.
PairDeleted ==
    /\ handled
    /\ dispatched = 1
    /\ doc = SubSeq(call.doc, 1, call.from - 1)
               \o SubSeq(call.doc, call.from + 2, Len(call.doc))

\* The cursor of the invocation stands between an opening character and its
\* own closing character, both text.
BetweenPair ==
    /\ CursorCall
    /\ CallBefore \in SpecOpening
    /\ CallAfter = SpecClosingFor(CallBefore)

QuoteSuppressed == CallBefore \in WordChars \/ CallAfter \in WordChars

-----------------------------------------------------------------------------
(* Properties *)

\* C1: auto-close.  At an empty cursor p, typing an opening character c for
\* which the auto-close check passes (c is a bracket, or c is a quote with no
\* word character on either side) inserts exactly c + closingFor(c) at p,
\* leaves the rest of the text alone, puts the cursor at p + 1 and is handled;
\* a quote directly before the same quote is skipped over instead.
C1_AutoClose ==
    (/\ CharCall
     /\ CursorCall
     /\ call.char \in SpecOpening
     /\ (call.char \in SpecQuotes => ~QuoteSuppressed /\ CallAfter # call.char))
    => AutoClosed(call.char)

\* C2: wrap.  With a non-empty selection, typing any opening character c
\* replaces the range by c + selectedText + closingFor(c), leaves the text
\* outside alone, puts an empty cursor just after the inserted closing
\* character and is handled, whatever stands next to the selection.
C2_Wrap ==
    (/\ CharCall
     /\ ~CursorCall
     /\ call.char \in SpecOpening)
    => Wrapped(call.char)

\* C3: skip-over.  At an empty cursor, a typed closing character c is skipped
\* over if and only if the character right after the cursor is text equal to
\* c; the skip moves the cursor by one and changes no text.  With a non-empty
\* selection it never happens.
C3_SkipOver ==
    (CharCall /\ call.char \in SpecClosing)
    => IF CursorCall
       THEN SkippedOver <=> (CallAfter = call.char)
       ELSE ~SkippedOver

C3_Witness ==
    /\ CharCall
    /\ CursorCall
    /\ call.char \in SpecClosingBrackets
    /\ CallAfter = call.char
    /\ SkippedOver

\* C4: paired-delete.  At an empty cursor between an opening character and
\* its own closing character (both text), the delete command removes exactly
\* these two characters in one transaction and is handled; a document that is
\* only the pair becomes empty.
C4_PairedDelete ==
    (DeleteCall /\ BetweenPair)
    => /\ PairDeleted
       /\ (Len(call.doc) = 2 => doc = <<>>)

C4_Witness ==
    /\ DeleteCall
    /\ BetweenPair
    /\ Len(call.doc) > 2
    /\ PairDeleted

\* C5: quote suppression.  A quote typed at an empty cursor with a word
\* character directly before or after it inserts no text; with no word
\* character on either side and not directly before the same quote it
\* auto-closes.
C5_QuoteSuppression ==
    (CharCall /\ CursorCall /\ call.char \in SpecQuotes)
    => /\ QuoteSuppressed => doc = call.doc
       /\ (~QuoteSuppressed /\ CallAfter # call.char) => AutoClosed(call.char)

C5_Witness ==
    /\ CharCall
    /\ CursorCall
    /\ call.char \in SpecQuotes
    /\ CallBefore \notin WordChars
    /\ CallAfter \in WordChars
    /\ NoEdit

\* C6: an opening bracket typed at an empty cursor always auto-closes,
\* whatever stands before and after the cursor.
C6_BracketsAlwaysAutoClose ==
    (CharCall /\ CursorCall /\ call.char \in SpecOpeningBrackets)
    => AutoClosed(call.char)

\* C7: fall-through.  A closing bracket typed at an empty cursor that is not
\* directly before that same character makes no edit and is unhandled.
C7_FallThrough ==
    (/\ CharCall
     /\ CursorCall
     /\ call.char \in SpecClosingBrackets
     /\ CallAfter # call.char)
    => NoEdit

\* C8: with a non-empty selection a typed closing bracket makes no edit and
\* is unhandled: document and selection stay as they were.
C8_NoWrapWithClosing ==
    (CharCall /\ ~CursorCall /\ call.char \in SpecClosingBrackets)
    => NoEdit

C8_Witness ==
    /\ CharCall
    /\ ~CursorCall
    /\ call.char \in SpecClosingBrackets
    /\ TextBefore(call.doc, call.to) # ""
    /\ NoEdit

\* C9: paired-delete makes no edit and is unhandled when the selection is not
\* empty, when the character before or after the cursor is missing or not
\* text, or when the two are not an opening character followed by its own
\* closing character.
C9_PairedDeleteDeclines ==
    (DeleteCall /\ ~BetweenPair) => NoEdit

C9_Witness ==
    /\ DeleteCall
    /\ CursorCall
    /\ CallBefore \in SpecOpening
    /\ CallAfter \in SpecClosing
    /\ CallAfter # SpecClosingFor(CallBefore)
    /\ NoEdit

\* The text differs from the text before the invocation by one whole pair:
\* an opening character and its own closing character inserted around a
\* range, or removed from around the cursor.
PairInserted ==
    \E c \in SpecOpening : \E i \in 0..Len(call.doc) : \E j \in i..Len(call.doc) :
        doc = SubSeq(call.doc, 1, i) \o <<c>>
                \o SelectSeq(SubSeq(call.doc, i + 1, j), isTextItem)
                \o <<SpecClosingFor(c)>> \o SubSeq(call.doc, j + 1, Len(call.doc))

PairRemoved ==
    \E i \in 1..(Len(call.doc) - 1) :
        /\ call.doc[i] \in SpecOpening
        /\ call.doc[i + 1] = SpecClosingFor(call.doc[i])
        /\ doc = SubSeq(call.doc, 1, i - 1) \o SubSeq(call.doc, i + 2, Len(call.doc))

\* C10: with a dispatch function, an invocation of a character or delete
\* command dispatches at most one transaction and is handled exactly when it
\* dispatched one; unhandled leaves document and selection alone; and the
\* text never gains or loses one character of a pair without the other.
C10_HandledIffOneEdit ==
    (CharCall \/ DeleteCall)
    => /\ dispatched <= 1
       /\ handled <=> dispatched = 1
       /\ ~handled => ViewUnchanged
       /\ doc = call.doc \/ PairInserted \/ PairRemoved

-----------------------------------------------------------------------------
(* Character groups and configuration *)

\* A function call ends by returning a value or by throwing an error.
Return(value) == [kind |-> "return", value |-> value]

Throw(error) == [kind |-> "throw", value |-> error]

AutopairGroup ==
    [RoundBrackets |-> "roundBrackets", AngleBrackets |-> "angleBrackets",
     CurlyBrackets |-> "curlyBrackets", SquareBrackets |-> "squareBrackets",
     DoubleQuotes |-> "doubleQuotes", SingleQuotes |-> "singleQuotes"]

\* Mutant: the double-quote group lists both quote characters.
AUTOPAIR_CHAR_GROUPS_bothQuotes ==
    << <<AutopairGroup.AngleBrackets, <<OpeningBracket.Angle, ClosingBracket.Angle>> >>,
       <<AutopairGroup.CurlyBrackets, <<OpeningBracket.Curly, ClosingBracket.Curly>> >>,
       <<AutopairGroup.RoundBrackets, <<OpeningBracket.Round, ClosingBracket.Round>> >>,
       <<AutopairGroup.SquareBrackets, <<OpeningBracket.Square, ClosingBracket.Square>> >>,
       <<AutopairGroup.DoubleQuotes, <<Quote.Double, Quote.Single>> >>,
       <<AutopairGroup.SingleQuotes, <<Quote.Single>> >> >>

\* chars.ts: group name -> characters, in key order.
AUTOPAIR_CHAR_GROUPS ==
    << <<AutopairGroup.AngleBrackets, <<OpeningBracket.Angle, ClosingBracket.Angle>> >>,
       <<AutopairGroup.CurlyBrackets, <<OpeningBracket.Curly, ClosingBracket.Curly>> >>,
       <<AutopairGroup.RoundBrackets, <<OpeningBracket.Round, ClosingBracket.Round>> >>,
       <<AutopairGroup.SquareBrackets, <<OpeningBracket.Square, ClosingBracket.Square>> >>,
       <<AutopairGroup.DoubleQuotes, <<Quote.Double>> >>,
       <<AutopairGroup.SingleQuotes, <<Quote.Single>> >> >>

\* pairs.ts (packages): the same table.
AUTOPAIR_GROUPS == AUTOPAIR_CHAR_GROUPS

\* pairs.ts: Object.values(AutopairGroup), in declaration order.
ALL_CHAR_GROUPS ==
    <<AutopairGroup.RoundBrackets, AutopairGroup.AngleBrackets,
      AutopairGroup.CurlyBrackets, AutopairGroup.SquareBrackets,
      AutopairGroup.DoubleQuotes, AutopairGroup.SingleQuotes>>

\* chars.ts: `isString(group) && group in AUTOPAIR_CHAR_GROUPS`.
isCharGroup(group) == isString(group) /\ HasProperty(AUTOPAIR_CHAR_GROUPS, group)

InvalidGroupError == "Error: Invalid auto-pair char group"

resolveCharGroup(group) ==
    IF ~isCharGroup(group)
    THEN Throw(InvalidGroupError)
    ELSE Return(Lookup(AUTOPAIR_CHAR_GROUPS, group))

\* pairs.ts: `isString(group) && ALL_CHAR_GROUPS.includes(group)`.
isAutopairGroup(group) == isString(group) /\ Includes(ALL_CHAR_GROUPS, group)

\* chars.ts: reverse lookup, the key of the first entry whose value is closingChar.
findOpeningMatch(closingChar) ==
    LET hits == {i \in 1..Len(AUTOPAIR_CHAR_MAP) : AUTOPAIR_CHAR_MAP[i][2] = closingChar}
    IN  IF hits = {} THEN undefined
        ELSE AUTOPAIR_CHAR_MAP[CHOOSE i \in hits : \A j \in hits : i <= j][1]

\* obj[key] = value on an object held as its entries in insertion order: an
\* existing key keeps its place, a new key goes last.
Assign(obj, key, value) ==
    IF HasOwn(obj, key)
    THEN [i \in 1..Len(obj) |-> IF obj[i][1] = key THEN <<key, value>> ELSE obj[i]]
    ELSE Append(obj, <<key, value>>)

RECURSIVE Spread(_, _)
\* { ...a, ...b }
Spread(a, b) ==
    IF b = <<>> THEN a
    ELSE Spread(Assign(a, Head(b)[1], Head(b)[2]), Tail(b))

RECURSIVE Flat(_)
\* Array.prototype.flat()
Flat(lists) == IF lists = <<>> THEN <<>> ELSE Head(lists) \o Flat(Tail(lists))

\* What `.map(([group]) => groups[group]).flat()` makes of one entry: flat()
\* spreads a group's array and keeps any other value (undefined for an
\* unknown key, an inherited member) as a single element.
GroupItems(groups, group) ==
    IF HasOwn(groups, group) THEN Lookup(groups, group) ELSE <<Lookup(groups, group)>>

\* `.filter(([, enabled]) => !!enabled)`
EnabledEntries(entries) == SelectSeq(entries, LAMBDA e : e[2])

defaultConfig ==
    << <<AutopairGroup.AngleBrackets, TRUE>>, <<AutopairGroup.CurlyBrackets, TRUE>>,
       <<AutopairGroup.RoundBrackets, TRUE>>, <<AutopairGroup.SquareBrackets, TRUE>>,
       <<AutopairGroup.DoubleQuotes, TRUE>>, <<AutopairGroup.SingleQuotes, TRUE>> >>

\* Mutant: the options are laid over defaultConfig before the filter.
resolveCharsToHandle_overDefaults(options) ==
    LET on == EnabledEntries(Spread(defaultConfig, options))
    IN  Flat([i \in 1..Len(on) |-> GroupItems(AUTOPAIR_CHAR_GROUPS, on[i][1])])

\* Mutant: the empty configuration is not a special case.
resolveCharsToHandle_emptyIsNone(options) ==
    LET on == EnabledEntries(options)
    IN  Flat([i \in 1..Len(on) |-> GroupItems(AUTOPAIR_CHAR_GROUPS, on[i][1])])

\* config.ts (src/lib): the empty configuration gives every character; any
\* other configuration gives the groups it names as enabled.
resolveCharsToHandle(options) ==
    LET entries == options
    IN  IF Len(entries) = 0 THEN ALL_AUTOPAIR_CHARS
        ELSE LET on == EnabledEntries(entries)
             IN  Flat([i \in 1..Len(on) |-> GroupItems(AUTOPAIR_CHAR_GROUPS, on[i][1])])

\* autopairs.ts (packages): the options are laid over defaultConfig first.
getEnabledAutopairChars(options) ==
    LET on == EnabledEntries(Spread(defaultConfig, options))
    IN  Flat([i \in 1..Len(on) |-> GroupItems(AUTOPAIR_GROUPS, on[i][1])])

-----------------------------------------------------------------------------
(* Key bindings *)

KeyboardKey == [Backspace |-> "Backspace"]

\* The command a factory returns: factory(args...) closes over its arguments.
Command(factory, args) == [factory |-> factory, args |-> args]

RECURSIVE charHandlerReducer(_, _)
\* keymap.ts: Object.entries(mapping).reduce((record, [keyOrChar, factory]) =>
\*   ({ ...record, [keyOrChar]: factory(keyOrChar) }), record)
charHandlerReducer(record, entries) ==
    IF entries = <<>> THEN record
    ELSE charHandlerReducer(
            Assign(record, Head(entries)[1], Command(Head(entries)[2], <<Head(entries)[1]>>)),
            Tail(entries))

buildAutopairKeyBindings(mapping) == charHandlerReducer(<<>>, mapping)

RECURSIVE autopairCharBindings(_, _)
\* autopairs.ts (src/lib): chars.reduce((mapping, char) =>
\*   ({ ...mapping, [char]: createAutopairCommandForChar }), mapping)
autopairCharBindings(mapping, chars) ==
    IF chars = <<>> THEN mapping
    ELSE autopairCharBindings(
            Assign(mapping, Head(chars), "createAutopairCommandForChar"), Tail(chars))

\* Mutant: Backspace is bound only when some character is.
AutopairsPlugin_backspaceIfChars(options) ==
    LET charBindings == autopairCharBindings(<<>>, resolveCharsToHandle(options))
        keyboardKeyBindings ==
            IF charBindings = <<>> THEN <<>>
            ELSE << <<KeyboardKey.Backspace, "createBackspaceInputCommand">> >>
    IN  buildAutopairKeyBindings(Spread(charBindings, keyboardKeyBindings))

\* autopairs.ts (src/lib): the key bindings handed to keymap() by the constructor.
AutopairsPlugin(options) ==
    LET charBindings == autopairCharBindings(<<>>, resolveCharsToHandle(options))
        keyboardKeyBindings == << <<KeyboardKey.Backspace, "createBackspaceInputCommand">> >>
    IN  buildAutopairKeyBindings(Spread(charBindings, keyboardKeyBindings))

RECURSIVE mergeAutopairCharHandler(_, _)
\* autopairs.ts (packages): chars.reduce((bindings, char) =>
\*   ({ ...bindings, [char]: createAutopairInputHandler(char) }), bindings)
mergeAutopairCharHandler(bindings, chars) ==
    IF chars = <<>> THEN bindings
    ELSE mergeAutopairCharHandler(
            Assign(bindings, Head(chars), Command("createAutopairInputHandler", <<Head(chars)>>)),
            Tail(chars))

\* Mutant: the Backspace binding is left out.
buildKeyBindings_noBackspace(options) ==
    mergeAutopairCharHandler(<<>>, getEnabledAutopairChars(options))

buildKeyBindings(options) ==
    LET chars == getEnabledAutopairChars(options)
    IN  Assign(mergeAutopairCharHandler(<<>>, chars),
               BACKSPACE, Command("createBackspaceInputHandler", <<>>))

\* autopairs.ts (packages): the key bindings handed to keymap() by autopairs().
autopairs(options) == buildKeyBindings(options)

-----------------------------------------------------------------------------
(* The exported functions, called directly *)

\* Largest number of keys of an options object written in arbitrary key
\* order, and of a mapping handed to buildAutopairKeyBindings.
MaxKeys == 3

GroupNames == {ALL_CHAR_GROUPS[i] : i \in 1..Len(ALL_CHAR_GROUPS)}

\* An object's entries: no key occurs twice.
DistinctKeys(entries) ==
    \A i, j \in 1..Len(entries) : i # j => entries[i][1] # entries[j][1]

\* The options object that sets the groups in DOMAIN flags, written in the
\* given key order.
OptionsInOrder(order, flags) ==
    LET present == SelectSeq(order, LAMBDA g : g \in DOMAIN flags)
    IN  [i \in 1..Len(present) |-> <<present[i], flags[present[i]]>>]

\* AutopairsOptions = Partial<Record<AutopairGroup, boolean>>: every subset
\* of the groups with every choice of flags, in the key order of
\* defaultConfig, and every options object of at most MaxKeys keys in any
\* key order.
AllOptions ==
    {OptionsInOrder(Keys(defaultConfig), flags) :
        flags \in UNION {[S -> BOOLEAN] : S \in SUBSET GroupNames}}
    \cup {o \in UNION {[1..n -> GroupNames \X BOOLEAN] : n \in 0..MaxKeys} :
            DistinctKeys(o)}

\* Options objects as untyped JavaScript callers can pass them: one or two
\* keys, at least one of them no group name.
UntypedOptions ==
    {o \in UNION {[1..n -> (GroupNames \cup {"bogus", "toString"}) \X BOOLEAN] : n \in 1..2} :
        /\ DistinctKeys(o)
        /\ \E i \in 1..Len(o) : o[i][1] \notin GroupNames}

\* Values of type unknown handed to the exported predicates and lookups.
ProbeValues ==
    TypedChars \cup {"a", "bogus"} \cup ObjectPrototypeKeys \cup GroupNames

\* Mappings handed to buildAutopairKeyBindings.
AllMappings ==
    {m \in UNION {[1..n -> {"(", "\"", BACKSPACE} \X {SrcChar, SrcBackspace}] :
                    n \in 0..MaxKeys} : DistinctKeys(m)}

LibraryInit ==
    /\ doc = <<>>
    /\ from = 0
    /\ to = 0
    /\ call = NoCall
    /\ handled = FALSE
    /\ dispatched = 0
    /\ thrown = NoError
    /\ probe = NoProbe

\* Everything but the probe: the view and the record of the last command.
host == <<doc, from, to, call, handled, dispatched, thrown>>

\* fn(args...) was called and ended with the given result.
Outcome(fn, args, result) == [fn |-> fn, args |-> args, result |-> result]

Call_isOpeningChar ==
    /\ probe = NoProbe
    /\ \E v \in ProbeValues :
        probe' = Outcome("chars.isOpeningChar", <<v>>, Return(isOpeningChar(v)))
    /\ UNCHANGED host

Call_isClosingChar ==
    /\ probe = NoProbe
    /\ \E v \in ProbeValues :
        probe' = Outcome("chars.isClosingChar", <<v>>, Return(isClosingChar(v)))
    /\ UNCHANGED host

Call_isAutopairChar ==
    /\ probe = NoProbe
    /\ \E v \in ProbeValues :
        probe' = Outcome("chars.isAutopairChar", <<v>>, Return(isAutopairChar(v)))
    /\ UNCHANGED host

Call_isQuoteChar ==
    /\ probe = NoProbe
    /\ \E v \in ProbeValues :
        probe' = Outcome("chars.isQuoteChar", <<v>>, Return(isQuoteChar(v)))
    /\ UNCHANGED host

Call_findClosingMatch ==
    /\ probe = NoProbe
    /\ \E v \in ProbeValues :
        probe' = Outcome("chars.findClosingMatch", <<v>>, Return(findClosingMatch(v)))
    /\ UNCHANGED host

Call_findOpeningMatch ==
    /\ probe = NoProbe
    /\ \E v \in ProbeValues :
        probe' = Outcome("chars.findOpeningMatch", <<v>>, Return(findOpeningMatch(v)))
    /\ UNCHANGED host

Call_isMatchingPair ==
    /\ probe = NoProbe
    /\ \E a \in ProbeValues : \E b \in ProbeValues :
        probe' = Outcome("chars.isMatchingPair", <<a, b>>, Return(isMatchingPair(a, b)))
    /\ UNCHANGED host

Call_isCharGroup ==
    /\ probe = NoProbe
    /\ \E v \in ProbeValues :
        probe' = Outcome("chars.isCharGroup", <<v>>, Return(isCharGroup(v)))
    /\ UNCHANGED host

Call_resolveCharGroup ==
    /\ probe = NoProbe
    /\ \E v \in ProbeValues :
        probe' = Outcome("chars.resolveCharGroup", <<v>>, resolveCharGroup(v))
    /\ UNCHANGED host

Call_isOpeningCharacter ==
    /\ probe = NoProbe
    /\ \E v \in ProbeValues :
        probe' = Outcome("pairs.isOpeningCharacter", <<v>>, Return(isOpeningCharacter(v)))
    /\ UNCHANGED host

Call_isClosingCharacter ==
    /\ probe = NoProbe
    /\ \E v \in ProbeValues :
        probe' = Outcome("pairs.isClosingCharacter", <<v>>, Return(isClosingCharacter(v)))
    /\ UNCHANGED host

Call_isMatchingCharacter ==
    /\ probe = NoProbe
    /\ \E v \in ProbeValues :
        probe' = Outcome("pairs.isMatchingCharacter", <<v>>, Return(isMatchingCharacter(v)))
    /\ UNCHANGED host

Call_isQuote ==
    /\ probe = NoProbe
    /\ \E v \in ProbeValues :
        probe' = Outcome("pairs.isQuote", <<v>>, Return(isQuote(v)))
    /\ UNCHANGED host

Call_getClosingCharacter ==
    /\ probe = NoProbe
    /\ \E v \in ProbeValues :
        probe' = Outcome("pairs.getClosingCharacter", <<v>>, Return(getClosingCharacter(v)))
    /\ UNCHANGED host

Call_isMatchingPairPkg ==
    /\ probe = NoProbe
    /\ \E a \in ProbeValues : \E b \in ProbeValues :
        probe' = Outcome("pairs.isMatchingPair", <<a, b>>, Return(isMatchingPairPkg(a, b)))
    /\ UNCHANGED host

Call_isAutopairGroup ==
    /\ probe = NoProbe
    /\ \E v \in ProbeValues :
        probe' = Outcome("pairs.isAutopairGroup", <<v>>, Return(isAutopairGroup(v)))
    /\ UNCHANGED host

Call_resolveCharsToHandle ==
    /\ probe = NoProbe
    /\ \E o \in AllOptions \cup UntypedOptions :
        probe' = Outcome("config.resolveCharsToHandle", <<o>>, Return(resolveCharsToHandle(o)))
    /\ UNCHANGED host

Call_getEnabledAutopairChars ==
    /\ probe = NoProbe
    /\ \E o \in AllOptions \cup UntypedOptions :
        probe' = Outcome("autopairs.getEnabledAutopairChars", <<o>>, Return(getEnabledAutopairChars(o)))
    /\ UNCHANGED host

Call_buildAutopairKeyBindings ==
    /\ probe = NoProbe
    /\ \E m \in AllMappings :
        probe' = Outcome("keymap.buildAutopairKeyBindings", <<m>>, Return(buildAutopairKeyBindings(m)))
    /\ UNCHANGED host

Call_AutopairsPlugin ==
    /\ probe = NoProbe
    /\ \E o \in AllOptions \cup UntypedOptions :
        probe' = Outcome("new AutopairsPlugin", <<o>>, Return(AutopairsPlugin(o)))
    /\ UNCHANGED host

Call_autopairs ==
    /\ probe = NoProbe
    /\ \E o \in AllOptions \cup UntypedOptions :
        probe' = Outcome("autopairs", <<o>>, Return(autopairs(o)))
    /\ UNCHANGED host

\* The caller has looked at the outcome.
ProbeDone ==
    /\ probe # NoProbe
    /\ probe' = NoProbe
    /\ UNCHANGED host

LibraryNext ==
    \/ Call_isOpeningChar
    \/ Call_isClosingChar
    \/ Call_isAutopairChar
    \/ Call_isQuoteChar
    \/ Call_findClosingMatch
    \/ Call_findOpeningMatch
    \/ Call_isMatchingPair
    \/ Call_isCharGroup
    \/ Call_resolveCharGroup
    \/ Call_isOpeningCharacter
    \/ Call_isClosingCharacter
    \/ Call_isMatchingCharacter
    \/ Call_isQuote
    \/ Call_getClosingCharacter
    \/ Call_isMatchingPairPkg
    \/ Call_isAutopairGroup
    \/ Call_resolveCharsToHandle
    \/ Call_getEnabledAutopairChars
    \/ Call_buildAutopairKeyBindings
    \/ Call_AutopairsPlugin
    \/ Call_autopairs
    \/ ProbeDone

LibrarySpec == LibraryInit /\ [][LibraryNext]_vars

-----------------------------------------------------------------------------
(* Properties of the configuration and of the key bindings *)

\* The elements of a list, as a set.
Range(list) == {list[i] : i \in 1..Len(list)}

\* The characters of each of the six groups, as the specification lists them.
SpecGroupChars(group) ==
    CASE group = "roundBrackets" -> {"(", ")"}
      [] group = "squareBrackets" -> {"[", "]"}
      [] group = "curlyBrackets" -> {"{", "}"}
      [] group = "angleBrackets" -> {"<", ">"}
      [] group = "doubleQuotes" -> {"\""}
      [] group = "singleQuotes" -> {"'"}

SpecGroupNames ==
    {"roundBrackets", "squareBrackets", "curlyBrackets", "angleBrackets",
     "doubleQuotes", "singleQuotes"}

SpecPairChars == SpecOpening \cup SpecClosing

\* The flag a configuration resolves to for a group: the explicit value, else true.
ResolvedFlag(options, group) ==
    IF \E i \in 1..Len(options) : options[i][1] = group
    THEN \E i \in 1..Len(options) : options[i][1] = group /\ options[i][2]
    ELSE TRUE

\* The union of the groups whose resolved flag is true.
SpecActiveChars(options) ==
    UNION {SpecGroupChars(g) : g \in {h \in SpecGroupNames : ResolvedFlag(options, h)}}

\* A configuration: every key is one of the six group names.
IsConfiguration(options) ==
    \A i \in 1..Len(options) : options[i][1] \in SpecGroupNames

\* One of the two functions that compute the active character set was
\* called with a configuration.
ResolveCall ==
    /\ probe.fn \in {"config.resolveCharsToHandle", "autopairs.getEnabledAutopairChars"}
    /\ IsConfiguration(probe.args[1])

\* C11: for every configuration, the active character set is the union of the
\* characters of the groups whose resolved flag is true, a group absent from
\* the configuration resolving to true.
C11_ConfigDefaults ==
    ResolveCall => Range(probe.result.value) = SpecActiveChars(probe.args[1])

\* One of the two plugin constructors was called; the result is the table
\* of key bindings it hands to the keymap.
ConstructCall ==
    /\ probe.fn \in {"new AutopairsPlugin", "autopairs"}
    /\ IsConfiguration(probe.args[1])

\* The command the called implementation creates for a typed character, and
\* the one it creates for the delete trigger.
CharHandler(c) ==
    IF probe.fn = "new AutopairsPlugin"
    THEN [factory |-> "createAutopairCommandForChar", args |-> <<c>>]
    ELSE [factory |-> "createAutopairInputHandler", args |-> <<c>>]

DeleteHandler ==
    IF probe.fn = "new AutopairsPlugin"
    THEN [factory |-> "createBackspaceInputCommand", args |-> <<"Backspace">>]
    ELSE [factory |-> "createBackspaceInputHandler", args |-> <<>>]

\* key is bound in the table, to the given command.
BoundTo(table, key, command) ==
    \E i \in 1..Len(table) : table[i][1] = key /\ table[i][2] = command

TableKeys(table) == {table[i][1] : i \in 1..Len(table)}

\* C12: with no options or an empty options object all groups are enabled:
\* the active character set is the ten pair characters, and each of them is
\* bound to the character handler.
C12_NoOptionsAllEnabled ==
    ((ResolveCall \/ ConstructCall) /\ probe.args[1] = <<>>)
    => /\ ResolveCall => Range(probe.result.value) = SpecPairChars
       /\ ConstructCall =>
            \A c \in SpecPairChars : BoundTo(probe.result.value, c, CharHandler(c))

C12_Witness ==
    /\ probe.fn = "new AutopairsPlugin"
    /\ probe.args[1] = <<>>
    /\ SpecPairChars \subseteq TableKeys(probe.result.value)

\* Every one of the six groups is set to false.
AllDisabled(options) ==
    \A g \in SpecGroupNames : \E i \in 1..Len(options) : options[i] = <<g, FALSE>>

\* C13: disabling all six groups yields an empty active character set, and
\* the table built from it holds the Backspace binding and nothing else.
C13_AllDisabled ==
    ((ResolveCall \/ ConstructCall) /\ AllDisabled(probe.args[1]))
    => /\ ResolveCall => probe.result.value = <<>>
       /\ ConstructCall =>
            /\ TableKeys(probe.result.value) = {"Backspace"}
            /\ BoundTo(probe.result.value, "Backspace", DeleteHandler)

C13_Witness ==
    /\ probe.fn = "autopairs"
    /\ AllDisabled(probe.args[1])
    /\ Len(probe.result.value) = 1

\* The table holds one command per key of the mapping: the one the key's
\* factory returns when invoked with the key.
OneCommandPerKey(mapping, table) ==
    /\ Len(table) = Len(mapping)
    /\ TableKeys(table) = TableKeys(mapping)
    /\ \A i \in 1..Len(mapping) :
        BoundTo(table, mapping[i][1],
                [factory |-> mapping[i][2], args |-> <<mapping[i][1]>>])

\* C14: for every configuration the keys of the table are the active
\* characters and Backspace, each active character bound to the character
\* handler created for that character and Backspace to the paired-delete
\* handler; buildAutopairKeyBindings yields one command per key of its
\* mapping, factory(key), and the empty table for the empty mapping.
C14_TableShape ==
    /\ ConstructCall =>
        LET table == probe.result.value
            active == SpecActiveChars(probe.args[1])
        IN  /\ TableKeys(table) = active \cup {"Backspace"}
            /\ \A c \in active : BoundTo(table, c, CharHandler(c))
            /\ BoundTo(table, "Backspace", DeleteHandler)
    /\ probe.fn = "keymap.buildAutopairKeyBindings" =>
        /\ OneCommandPerKey(probe.args[1], probe.result.value)
        /\ probe.args[1] = <<>> => probe.result.value = <<>>

-----------------------------------------------------------------------------
(* Properties of the character tables *)

\* C15: isOpening is true exactly for ( [ { < " ' and isClosing exactly for
\* ) ] } > " ', isPairChar exactly for the union of the two, isQuote exactly
\* for " and '; all four are false for every other value, non-strings included.
C15_Classification ==
    /\ probe.fn \in {"chars.isOpeningChar", "pairs.isOpeningCharacter"}
        => (probe.result.value <=> probe.args[1] \in SpecOpening)
    /\ probe.fn \in {"chars.isClosingChar", "pairs.isClosingCharacter"}
        => (probe.result.value <=> probe.args[1] \in SpecClosing)
    /\ probe.fn \in {"chars.isAutopairChar", "pairs.isMatchingCharacter"}
        => (probe.result.value <=> probe.args[1] \in SpecPairChars)
    /\ probe.fn \in {"chars.isQuoteChar", "pairs.isQuote"}
        => (probe.result.value <=> probe.args[1] \in SpecQuotes)

\* C16: closingFor of an opening character is a closing character; of any
\* other input it is undefined, and the call does not throw; openingFor of a
\* closing character is undefined or is mapped back to that character by
\* closingFor.
C16_PairMapping ==
    /\ probe.fn \in {"chars.findClosingMatch", "pairs.getClosingCharacter"}
        => /\ probe.result.kind = "return"
           /\ IF probe.args[1] \in SpecOpening
              THEN probe.result.value \in SpecClosing
              ELSE probe.result.value = undefined
    /\ (probe.fn = "chars.findOpeningMatch" /\ probe.args[1] \in SpecClosing)
        => \/ probe.result.value = undefined
           \/ findClosingMatch(probe.result.value) = probe.args[1]

\* C17: isMatchingPair(a, b) is true exactly when a is an opening character
\* and b is the closing character of a, so for the six pairs and for no other
\* ordered pair of values.
C17_MatchingPair ==
    probe.fn \in {"chars.isMatchingPair", "pairs.isMatchingPair"}
    => (probe.result.value
            <=> /\ probe.args[1] \in SpecOpening
                /\ probe.args[2] = SpecClosingFor(probe.args[1]))

C17_Witness ==
    /\ probe.fn = "pairs.isMatchingPair"
    /\ probe.args = <<"\"", "'">>
    /\ probe.result = [kind |-> "return", value |-> FALSE]

\* C18: resolveCharGroup returns the characters of the group for each of the
\* six group names and throws the invalid-group error for every other value;
\* isCharGroup never throws and is true exactly for the six group names.
C18_GroupResolution ==
    /\ probe.fn = "chars.resolveCharGroup"
        => IF probe.args[1] \in SpecGroupNames
           THEN /\ probe.result.kind = "return"
                /\ Range(probe.result.value) = SpecGroupChars(probe.args[1])
                /\ Len(probe.result.value) = Cardinality(SpecGroupChars(probe.args[1]))
           ELSE probe.result = [kind |-> "throw", value |-> "Error: Invalid auto-pair char group"]
    /\ probe.fn \in {"chars.isCharGroup", "pairs.isAutopairGroup"}
        => /\ probe.result.kind = "return"
           /\ probe.result.value <=> probe.args[1] \in SpecGroupNames

-----------------------------------------------------------------------------
(* Properties of the commands, continued *)

\* C19: in the quote auto-close check an absent neighbour counts as the
\* empty string, which is no word character: a quote typed at an empty cursor
\* with no text on either side auto-closes; typed at the start of the text
\* before a word character, or at the end of the text after one, it is denied.
C19_AbsentNeighbours ==
    (CharCall /\ CursorCall /\ call.char \in SpecQuotes)
    => /\ (CallBefore = "" /\ CallAfter = "") => AutoClosed(call.char)
       /\ (call.from = 0 /\ CallAfter \in WordChars) => NoEdit
       /\ (call.from = Len(call.doc) /\ CallBefore \in WordChars) => NoEdit

C19_Witness ==
    /\ CharCall
    /\ CursorCall
    /\ call.char \in SpecQuotes
    /\ Len(call.doc) > 0
    /\ CallBefore = ""
    /\ CallAfter = ""
    /\ AutoClosed(call.char)

\* C20: the character commands and the delete commands never throw, whatever
\* value was typed and whatever the document and selection are; they return a
\* boolean.  A typed value that is no pair character is unhandled and edits
\* nothing.
C20_NeverThrows ==
    ~Idle
    => /\ thrown = NoError
       /\ handled \in BOOLEAN
       /\ (call.handler \in {SrcChar, PkgChar} /\ call.char \notin SpecPairChars)
            => NoEdit

C20_Witness ==
    /\ call.handler \in {SrcChar, PkgChar}
    /\ call.dispatch
    /\ call.char \in {undefined, aNumber, "()"}
    /\ call.from < call.to
    /\ thrown = NoError
    /\ NoEdit

\* Text was inserted at the cursor of the invocation, nothing else changed,
\* and the cursor stands one position further: the shape of the edit made by
\* the auto-close branch.
InsertedAtCursor ==
    /\ handled
    /\ Len(doc) > Len(call.doc)
    /\ SubSeq(doc, 1, call.from) = SubSeq(call.doc, 1, call.from)
    /\ SubSeq(doc, call.from + 1 + Len(doc) - Len(call.doc), Len(doc))
         = SubSeq(call.doc, call.from + 1, Len(call.doc))
    /\ from = call.from + 1
    /\ to = call.from + 1

\* C21: for a typed pair character the checks run in the order wrap,
\* skip-over, auto-close and at most one edit results: with a non-empty
\* selection the only edit is the wrap, never a skip-over or an auto-close;
\* at an empty cursor the wrap never happens; and a quote typed at an empty
\* cursor directly before the same quote is skipped over, not auto-closed.
C21_ResolutionOrder ==
    (CharCall /\ call.char \in SpecPairChars)
    => /\ dispatched <= 1
       /\ ~CursorCall =>
            /\ ~SkippedOver
            /\ ~InsertedAtCursor
            /\ NoEdit \/ (call.char \in SpecOpening /\ Wrapped(call.char))
       /\ CursorCall =>
            /\ NoEdit \/ SkippedOver \/ InsertedAtCursor
            /\ ~(SkippedOver /\ InsertedAtCursor)
       /\ (CursorCall /\ call.char \in SpecQuotes /\ CallAfter = call.char) =>
            /\ SkippedOver
            /\ ~InsertedAtCursor

C21_Witness ==
    /\ CharCall
    /\ CursorCall
    /\ call.char \in SpecQuotes
    /\ CallAfter = call.char
    /\ CallBefore \notin WordChars
    /\ SkippedOver

-----------------------------------------------------------------------------
(* Properties of the configuration, continued *)

\* The characters of a group in the order the group lists them.
SpecGroupList(group) ==
    CASE group = "roundBrackets" -> <<"(", ")">>
      [] group = "squareBrackets" -> <<"[", "]">>
      [] group = "curlyBrackets" -> <<"{", "}">>
      [] group = "angleBrackets" -> <<"<", ">">>
      [] group = "doubleQuotes" -> <<"\"">>
      [] group = "singleQuotes" -> <<"'">>

RECURSIVE ExplicitlyEnabledChars(_)
\* The characters of the groups an options object sets to true, in key order.
ExplicitlyEnabledChars(options) ==
    IF options = <<>> THEN <<>>
    ELSE (IF Head(options)[2] THEN SpecGroupList(Head(options)[1]) ELSE <<>>)
            \o ExplicitlyEnabledChars(Tail(options))

GroupsPartition(groups, mapping) ==
    /\ Len(groups) = 6
    /\ TableKeys(groups) = SpecGroupNames
    /\ \A i, j \in 1..Len(groups) :
        i # j => Range(groups[i][2]) \cap Range(groups[j][2]) = {}
    /\ UNION {Range(groups[i][2]) : i \in 1..Len(groups)}
         = TableKeys(mapping) \cup {mapping[i][2] : i \in 1..Len(mapping)}
    /\ \A i \in 1..Len(groups) :
        LET list == groups[i][2]
        IN  IF groups[i][1] \in {"doubleQuotes", "singleQuotes"}
            THEN list = SpecGroupList(groups[i][1])
            ELSE /\ Len(list) = 2
                 /\ list[1] \in SpecOpeningBrackets
                 /\ BoundTo(mapping, list[1], list[2])

\* C24: the six groups are pairwise disjoint and their union is the domain
\* and range of the pair mapping; each bracket group holds one opening
\* bracket and its mapped closing bracket, each quote group its quote; the
\* default configuration has exactly the six group names as keys, all true.
\* So the list resolveCharGroup returns for a group shares no character with
\* any other group.
C24_GroupsPartition ==
    /\ GroupsPartition(AUTOPAIR_CHAR_GROUPS, AUTOPAIR_CHAR_MAP)
    /\ GroupsPartition(AUTOPAIR_GROUPS, OPEN_CLOSE_MAPPING)
    /\ Len(defaultConfig) = 6
    /\ TableKeys(defaultConfig) = SpecGroupNames
    /\ \A i \in 1..Len(defaultConfig) : defaultConfig[i][2] = TRUE
    /\ (probe.fn = "chars.resolveCharGroup" /\ probe.args[1] \in SpecGroupNames)
        => \A i \in 1..Len(AUTOPAIR_CHAR_GROUPS) :
            AUTOPAIR_CHAR_GROUPS[i][1] # probe.args[1]
            => Range(probe.result.value) \cap Range(AUTOPAIR_CHAR_GROUPS[i][2]) = {}

C24_Witness ==
    /\ probe.fn = "chars.resolveCharGroup"
    /\ probe.args[1] = "squareBrackets"
    /\ probe.result = [kind |-> "return", value |-> <<"[", "]">>]
    /\ C24_GroupsPartition

\* The options object names, as enabled, a group that does not exist.
EnablesUnknownGroup(options) ==
    \E i \in 1..Len(options) : options[i][1] \notin SpecGroupNames /\ options[i][2]

-----------------------------------------------------------------------------
(* Properties of two keystrokes in a row *)

\* The view as the recorded invocation left it: the snapshot the next
\* command is handed.
ViewNow == EditorState(doc, from, to)

\* The next keystroke, handled by the same implementation as the recorded
\* one: Backspace, or a typed character.
BackspaceNext ==
    IF call.handler = SrcChar
    THEN createBackspaceInputCommand(ViewNow, TRUE)
    ELSE createBackspaceInputHandler(ViewNow, TRUE)

TypedNext(char) ==
    IF call.handler = SrcChar
    THEN createAutopairCommandForChar(char, ViewNow, TRUE)
    ELSE createAutopairInputHandler(char, ViewNow, TRUE)

\* The recorded invocation auto-closed an opening character at an empty cursor.
JustAutoClosed ==
    /\ CharCall
    /\ CursorCall
    /\ call.char \in SpecOpening
    /\ AutoClosed(call.char)

\* C26: typing an opening character that auto-closes and then at once
\* invoking paired-delete gives the original text again, with the cursor
\* back where it was.
C26_RoundTrip ==
    JustAutoClosed
    => /\ BackspaceNext.handled
       /\ BackspaceNext.thrown = NoError
       /\ BackspaceNext.trs = <<[doc |-> call.doc, from |-> call.from, to |-> call.from]>>

C26_Witness ==
    /\ JustAutoClosed
    /\ call.char \in SpecOpeningBrackets
    /\ call.from > 0
    /\ call.from < Len(call.doc)
    /\ BackspaceNext.trs[1].doc = call.doc

\* C27: after an auto-close of c at p, typing the closing character of c at
\* once is handled as a skip-over: the text keeps exactly the one inserted
\* pair and the cursor ends at p + 2.
C27_TypeThrough ==
    JustAutoClosed
    => LET next == TypedNext(SpecClosingFor(call.char))
       IN  /\ next.handled
           /\ next.thrown = NoError
           /\ next.trs = <<[doc |-> doc, from |-> call.from + 2, to |-> call.from + 2]>>

C27_Witness ==
    /\ JustAutoClosed
    /\ call.char \in SpecQuotes
    /\ Len(call.doc) > 0
    /\ TypedNext(call.char).trs[1].from = call.from + 2

-----------------------------------------------------------------------------
(* Properties of every edit *)

\* The number of text characters of a document, and of occurrences of one.
TextLen(d) == Len(SelectSeq(d, isTextItem))

Count(d, ch) == Cardinality({i \in 1..Len(d) : d[i] = ch})

\* Opening minus closing brackets of the kind of the opening bracket o.
Balance(d, o) == Count(d, o) - Count(d, SpecClosingFor(o))

\* C28: every handled invocation adds or removes exactly one opening
\* character together with its own closing character, or changes no text:
\* the text length changes by +2, 0 or -2, and for each kind of bracket the
\* number of opening minus the number of closing brackets stays the same.
C28_PairBalance ==
    ((CharCall \/ DeleteCall) /\ handled)
    => /\ doc = call.doc \/ PairInserted \/ PairRemoved
       /\ TextLen(doc) - TextLen(call.doc) \in {2, 0, -2}
       /\ \A o \in SpecOpeningBrackets : Balance(doc, o) = Balance(call.doc, o)

\* What the recorded invocation returns when it is made on the same
\* snapshot with a dispatch function.
WithDispatch ==
    LET state == EditorState(call.doc, call.from, call.to)
    IN  CASE call.handler = SrcChar -> createAutopairCommandForChar(call.char, state, TRUE)
          [] call.handler = PkgChar -> createAutopairInputHandler(call.char, state, TRUE)
          [] call.handler = SrcBackspace -> createBackspaceInputCommand(state, TRUE)
          [] call.handler = PkgBackspace -> createBackspaceInputHandler(state, TRUE)

\* C29: a character or delete command invoked without a dispatch function
\* changes neither document nor selection, and returns what the same
\* invocation returns with a dispatch function.
C29_DryRun ==
    (~Idle /\ ~call.dispatch)
    => /\ ViewUnchanged
       /\ dispatched = 0
       /\ thrown = NoError
       /\ handled = WithDispatch.handled

C29_Witness ==
    /\ call.handler = PkgBackspace
    /\ ~call.dispatch
    /\ handled
    /\ ViewUnchanged
    /\ WithDispatch.trs # <<>>

-----------------------------------------------------------------------------
(* The key table at work *)

\* keymap(bindings): the command bound to a key is run on the state of the
\* view; it is the command its factory made for the arguments it was given.
runCommand(command, state, dispatch) ==
    CASE command.factory = SrcChar ->
            createAutopairCommandForChar(command.args[1], state, dispatch)
      [] command.factory = SrcBackspace -> createBackspaceInputCommand(state, dispatch)
      [] command.factory = PkgChar ->
            createAutopairInputHandler(command.args[1], state, dispatch)
      [] command.factory = PkgBackspace -> createBackspaceInputHandler(state, dispatch)

\* Backspace pressed with the cursor between o and its closing character,
\* in a paragraph that holds just this pair, under the given table.
BackspaceInPair(table, o) ==
    runCommand(Lookup(table, "Backspace"),
               EditorState(<<o, SpecClosingFor(o)>>, 1, 1), TRUE)

\* C30: paired-delete does not depend on the configuration.  Under every
\* configuration Backspace is bound to the delete command, and with the
\* cursor between any matching pair that command removes both characters,
\* also when the pair's group is disabled; no key is bound for a character of
\* a disabled group, so typing it is never handled.
C30_DeleteIgnoresConfiguration ==
    ConstructCall
    => LET table == probe.result.value
           options == probe.args[1]
       IN  /\ BoundTo(table, "Backspace", DeleteHandler)
           /\ \A o \in SpecOpening :
                /\ BackspaceInPair(table, o).handled
                /\ BackspaceInPair(table, o).trs = <<[doc |-> <<>>, from |-> 0, to |-> 0]>>
           /\ \A g \in SpecGroupNames :
                ~ResolvedFlag(options, g) => SpecGroupChars(g) \cap TableKeys(table) = {}

C30_Witness ==
    /\ probe.fn = "new AutopairsPlugin"
    /\ probe.args[1] = << <<"roundBrackets", FALSE>>, <<"doubleQuotes", TRUE>> >>
    /\ "(" \notin TableKeys(probe.result.value)
    /\ BackspaceInPair(probe.result.value, "(").trs[1].doc = <<>>

====
